---- MODULE Spec2Model ----
(***************************************************************************)
(* ProcessAgent: the planning pipeline                                     *)
(*   PlannerAgent/LLMPlannerAgent -> ValidatorAgent -> CodeAgent ->        *)
(*   ValidatorAgent, sequenced by Orchestrator.run.                        *)
(*                                                                         *)
(* Python values are tagged records, so that None, a missing key, a number,*)
(* a string and a list stay distinguishable.  Lengths (mm) are fixed-point *)
(* integers in units of 1/Scale mm; rpm and feed are plain integers.       *)
(***************************************************************************)
EXTENDS Integers, Sequences, FiniteSets, TLC

\* ------------------------------------------------------------------ bounds
MaxHoles == 2
MaxSteps == 2
MaxLLMSteps == 2

\* ------------------------------------------------------------ Python values
Scale == 10

Num(n) == [t |-> "num", n |-> n]
Str(s) == [t |-> "str", s |-> s]
List(q) == [t |-> "list", l |-> q]
None == [t |-> "none"]
Absent == [t |-> "absent"]

IsNum(v) == v.t = "num"
IsStr(v) == v.t = "str"
IsList(v) == v.t = "list"
IsNone(v) == v.t = "none"
IsAbsent(v) == v.t = "absent"

\* dict.get(key): a missing key reads as None
Get(v) == IF IsAbsent(v) THEN None ELSE v
\* dict.get(key, default): only a missing key reads as the default
GetDefault(v, default) == IF IsAbsent(v) THEN default ELSE v
\* bool(v)
Truthy(v) ==
    CASE IsNum(v) -> v.n # 0
      [] IsStr(v) -> v.s # ""
      [] IsList(v) -> Len(v.l) > 0
      [] OTHER -> FALSE

\* int(x) of a float held in 1/Scale units: truncation toward zero
Trunc(d) == IF d >= 0 THEN d \div Scale ELSE -((-d) \div Scale)
Abs(x) == IF x >= 0 THEN x ELSE -x

\* f"drill_{int(diameter)}mm"
DrillKey(d) == "drill_" \o ToString(Trunc(d)) \o "mm"

\* ----------------------------------------------------------- result values
Ok(v) == [ok |-> TRUE, val |-> v]
Raise(exc, msg) == [ok |-> FALSE, exc |-> exc, msg |-> msg]

\* ------------------------------------------------------- the Knowledge Base
\* A tool table is an insertion-ordered dict: a sequence of (key, meta).
Tool(key, type, dia) == [key |-> key, type |-> type, diameter_mm |-> dia]

ToolsStandard ==
    << Tool("endmill_6mm", "endmill", Num(60)), Tool("drill_3mm", "drill", Num(30)),
       Tool("drill_6mm", "drill", Num(60)) >>
ToolsTwoDrills == << Tool("drill_3mm", "drill", Num(30)), Tool("drill_10mm", "drill", Num(100)) >>
ToolsReversed ==
    << Tool("drill_x", "drill", Str("n/a")), Tool("drill_10mm", "drill", Num(100)),
       Tool("drill_3mm", "drill", Num(30)) >>
ToolsNoDrill == << Tool("endmill_6mm", "endmill", Num(60)) >>
ToolsAdjacent == << Tool("drill_6mm", "drill", Num(60)), Tool("drill_7mm", "drill", Num(70)) >>
ToolsEmpty == << >>

Material(rpm, feed) == [recommended_rpm |-> rpm, recommended_feed_mm_per_min |-> feed]
MaterialsStandard ==
    [m \in {"aluminum_6061", "steel_1018"} |->
        IF m = "aluminum_6061" THEN Material(Num(12000), Num(800))
        ELSE Material(Num(6000), Absent)]
MaterialsEmpty == [m \in {} |-> Material(Absent, Absent)]

OperationsStandard == [o \in {"face_milling"} |-> [default_tool |-> Str("endmill_6mm")]]
OperationsEmpty == [o \in {} |-> [default_tool |-> Absent]]

DB(materials, tools, operations) ==
    [materials |-> materials, tools |-> tools, operations |-> operations]

DBs ==
    { DB(MaterialsStandard, ToolsStandard, OperationsStandard),
      DB(MaterialsStandard, ToolsTwoDrills, OperationsEmpty),
      DB(MaterialsStandard, ToolsReversed, OperationsStandard),
      DB(MaterialsStandard, ToolsNoDrill, OperationsStandard),
      DB(MaterialsStandard, ToolsAdjacent, OperationsStandard),
      DB(MaterialsEmpty, ToolsEmpty, OperationsEmpty) }

\* key in tools
HasKey(tools, key) == \E i \in 1..Len(tools) : tools[i].key = key
\* tools[key] / tools.get(key, {})
IndexOfKey(tools, key) == CHOOSE i \in 1..Len(tools) : tools[i].key = key

\* ------------------------------------------------------------ Tool Resolver
\* meta.get("type") == "drill" and isinstance(meta.get("diameter_mm"), (int, float))
IsDrillCandidateAnyType(meta) == IsNum(meta.diameter_mm)
IsDrillCandidate(meta) == meta.type = "drill" /\ IsNum(meta.diameter_mm)

\* the (index, diameter) candidates, in table order
RECURSIVE CandidatesFrom(_, _)
CandidatesFrom(tools, i) ==
    IF i > Len(tools) THEN << >>
    ELSE IF IsDrillCandidate(tools[i])
         THEN << i >> \o CandidatesFrom(tools, i + 1)
         ELSE CandidatesFrom(tools, i + 1)
Candidates(tools) == CandidatesFrom(tools, 1)

\* Python min(iterable, key=...): the running best is replaced only by a
\* strictly smaller key, so the first minimal element wins.
MinKeepsLastWins(bestDist, nextDist) == bestDist < nextDist
MinKeeps(bestDist, nextDist) == bestDist <= nextDist
RECURSIVE MinFrom(_, _, _, _, _)
MinFrom(tools, cands, d, j, best) ==
    IF j > Len(cands) THEN best
    ELSE LET bd == Abs(tools[best].diameter_mm.n - d)
             nd == Abs(tools[cands[j]].diameter_mm.n - d)
         IN MinFrom(tools, cands, d, j + 1, IF MinKeeps(bd, nd) THEN best ELSE cands[j])
ClosestIndex(tools, d) ==
    LET cands == Candidates(tools) IN MinFrom(tools, cands, d, 2, cands[1])

\* CodeAgent._pick_tool_for_drilling: (key, meta) or ValueError
PreferredKey(d) == DrillKey(d)
PickToolForDrilling(tools, d) ==
    IF HasKey(tools, PreferredKey(d)) THEN Ok(PreferredKey(d))
    ELSE IF Candidates(tools) = << >> THEN Raise("ValueError", "No drill tools available in DB")
    ELSE Ok(tools[ClosestIndex(tools, d)].key)

\* --------------------------------------------------------------- plan steps
\* A step dict; a key that the dict lacks holds Absent.  (notes is read by no
\* component of the pipeline and is left out.)
Step(op, depth, dia, pos, tool, rpm, feed) ==
    [operation |-> op, depth_mm |-> depth, diameter_mm |-> dia, position |-> pos,
     tool |-> tool, rpm |-> rpm, feed_rate_mm_per_min |-> feed]

\* ------------------------------------------------------------- program text
\* A program is its list of lines; a line is its fixed text and the values
\* formatted into it.  "\n".join(lines) is "" exactly for no lines.
Line(k, a) == [k |-> k, a |-> a]
Text(lines) == [t |-> "text", lines |-> lines]
HeaderLine == Line("; PSEUDO-GCODE GENERATED", << >>)
EndLine == Line("M30", << >>)
\* marker in gcode: a substring test; the markers occur in these lines only
LineContains(line, marker) ==
    CASE marker = "PSEUDO-GCODE" -> line.k = "; PSEUDO-GCODE GENERATED"
      [] marker = "M30" -> line.k = "M30"
      [] OTHER -> line.k = marker
Contains(gcode, marker) == \E i \in 1..Len(gcode.lines) : LineContains(gcode.lines[i], marker)

\* ---------------------------------------------------------- ValidatorAgent
Err(step, msg) == [step |-> step, msg |-> msg]

\* not isinstance(v, (int, float)) or v <= 0, for a v that is not None
NotPositiveNumber(v) == ~IsNum(v) \/ v.n <= 0

PlanErrors(plan) == IF Len(plan) = 0 THEN << Err(0, "Plan is empty") >> ELSE << >>

GcodeErrorsNoTerminatorCheck(gcode) ==
    IF IsNone(gcode) THEN << >>
    ELSE IF Len(gcode.lines) = 0 THEN << Err(0, "G-code is empty") >>
    ELSE IF ~Contains(gcode, "PSEUDO-GCODE")
         THEN << Err(0, "G-code missing header (PSEUDO-GCODE marker)") >>
    ELSE << >>
GcodeErrors(gcode) ==
    IF IsNone(gcode) THEN << >>
    ELSE IF Len(gcode.lines) = 0 THEN << Err(0, "G-code is empty") >>
    ELSE IF ~Contains(gcode, "PSEUDO-GCODE")
         THEN << Err(0, "G-code missing header (PSEUDO-GCODE marker)") >>
    ELSE IF ~Contains(gcode, "M30") THEN << Err(0, "G-code missing terminator (M30)") >>
    ELSE << >>

IsSupportedOp(op) == IsStr(op) /\ op.s \in {"face_milling", "drilling"}
IsOp(op, name) == IsStr(op) /\ op.s = name

\* `depth is None or depth <= 0` compares a non-number with 0: TypeError
DepthComparisonRaises(step) ==
    /\ IsOp(Get(step.operation), "face_milling") \/ IsOp(Get(step.operation), "drilling")
    /\ ~IsNone(Get(step.depth_mm))
    /\ ~IsNum(Get(step.depth_mm))

\* isinstance(pos, list) and len(pos) == 2
PositionOk(pos) == IsList(pos) /\ Len(pos.l) = 2

\* the errors of one step, in the order of the checks
StepErrors(idx, step) ==
    LET op == Get(step.operation)
        depth == Get(step.depth_mm)
        tool == Get(step.tool)
        rpm == Get(step.rpm)
        feed == Get(step.feed_rate_mm_per_min)
        dia == Get(step.diameter_mm)
        pos == Get(step.position)
        depthMissing == IsNone(depth) \/ depth.n <= 0
    IN  (IF ~IsSupportedOp(op) THEN << Err(idx, "Unsupported operation") >> ELSE << >>)
     \o (IF ~IsNone(depth) /\ NotPositiveNumber(depth)
         THEN << Err(idx, "depth_mm must be > 0") >> ELSE << >>)
     \o (IF ~IsNone(tool) /\ (~IsStr(tool) \/ tool.s \in {"", " "})
         THEN << Err(idx, "Invalid tool identifier") >> ELSE << >>)
     \o (IF ~IsNone(rpm) /\ NotPositiveNumber(rpm)
         THEN << Err(idx, "Invalid RPM value") >> ELSE << >>)
     \o (IF ~IsNone(feed) /\ NotPositiveNumber(feed)
         THEN << Err(idx, "Invalid feed_rate_mm_per_min value") >> ELSE << >>)
     \o (IF IsOp(op, "face_milling")
         THEN (IF depthMissing THEN << Err(idx, "face_milling requires depth_mm > 0") >>
               ELSE << >>)
         ELSE IF IsOp(op, "drilling")
         THEN (IF IsNone(dia) \/ NotPositiveNumber(dia)
               THEN << Err(idx, "drilling requires diameter_mm > 0") >> ELSE << >>)
           \o (IF ~PositionOk(pos)
               THEN << Err(idx, "drilling requires position [x, y]") >> ELSE << >>)
           \o (IF depthMissing THEN << Err(idx, "drilling requires depth_mm > 0") >>
               ELSE << >>)
         ELSE << >>)

RECURSIVE StepsErrorsFrom(_, _)
StepsErrorsFrom(plan, i) ==
    IF i > Len(plan) THEN << >>
    ELSE StepErrors(i, plan[i]) \o StepsErrorsFrom(plan, i + 1)

\* ValidatorAgent.validate(plan, gcode): (is_valid, errors), or the TypeError
\* of the first step whose depth comparison raises
Validate(plan, gcode) ==
    IF \E i \in 1..Len(plan) : DepthComparisonRaises(plan[i])
    THEN Raise("TypeError", "'<=' not supported")
    ELSE LET errors == PlanErrors(plan) \o GcodeErrors(gcode) \o StepsErrorsFrom(plan, 1)
         IN Ok([valid |-> Len(errors) = 0, errors |-> errors])

\* ---------------------------------------------------------------- CodeAgent
DefaultRpm == 1000
DefaultFeed == 100
FaceDepthDefault == 2
DrillDiaDefault == 30
DrillDepthDefault == 100

\* float(v) / int(v): a number converts, a (non-numeric) string is a
\* ValueError, anything else a TypeError
ToNumber(v) ==
    IF IsNum(v) THEN Ok(v.n)
    ELSE IF IsStr(v) THEN Raise("ValueError", "could not convert string")
    ELSE Raise("TypeError", "argument must be a string or a number")

\* CodeAgent._material_params
MaterialParams(kb, material) ==
    IF material \notin DOMAIN kb.materials
    THEN Raise("ValueError", "Unknown material")
    ELSE Ok([rpm |-> GetDefault(kb.materials[material].recommended_rpm, Num(DefaultRpm)).n,
             feed |-> GetDefault(kb.materials[material].recommended_feed_mm_per_min,
                                 Num(DefaultFeed)).n])

\* the try/except around _material_params in generate_pseudo_gcode
GenerateDefaults(kb, material) ==
    LET r == MaterialParams(kb, material)
    IN IF r.ok THEN r.val ELSE [rpm |-> DefaultRpm, feed |-> DefaultFeed]

\* int(x) if x else default
OrDefault(v, default) == IF Truthy(v) THEN ToNumber(v) ELSE Ok(default)

\* float(pos[0]), float(pos[1])
PositionXY(pos) ==
    IF ~IsList(pos) THEN Raise("TypeError", "object is not subscriptable")
    ELSE IF Len(pos.l) < 2 THEN Raise("IndexError", "list index out of range")
    ELSE IF ~ToNumber(pos.l[1]).ok THEN ToNumber(pos.l[1])
    ELSE IF ~ToNumber(pos.l[2]).ok THEN ToNumber(pos.l[2])
    ELSE Ok(<< pos.l[1].n, pos.l[2].n >>)

\* the tool of a drilling block: the step's own, or the resolver's
UsesOwnTool(tool) == Truthy(tool) /\ tool # Str("unknown")
DrillingTool(kb, tool, dia) ==
    IF UsesOwnTool(tool)
    THEN Ok([key |-> tool,
             dia |-> IF IsStr(tool) /\ HasKey(kb.tools, tool.s)
                     THEN kb.tools[IndexOfKey(kb.tools, tool.s)].diameter_mm
                     ELSE Str("?")])
    ELSE LET r == PickToolForDrilling(kb.tools, dia)
         IN IF r.ok THEN Ok([key |-> Str(r.val),
                             dia |-> kb.tools[IndexOfKey(kb.tools, r.val)].diameter_mm])
            ELSE r

FaceMillingLinesRestartsSpindle(tool, rpm, feed, depth) ==
    << Line("; -- Face Milling", << tool, rpm, feed >>),
       Line("M03 S", << rpm >>),
       Line("G00 X0 Y0 Z5", << >>),
       Line("G01 Z- F", << depth, feed >>),
       Line("G01 X50 Y0", << >>),
       Line("G01 X50 Y50", << >>),
       Line("G01 X0 Y50", << >>),
       Line("G01 X0 Y0", << >>),
       Line("G00 Z5", << >>) >>
FaceMillingLines(tool, rpm, feed, depth) ==
    << Line("; -- Face Milling", << tool, rpm, feed >>),
       Line("G00 X0 Y0 Z5", << >>),
       Line("G01 Z- F", << depth, feed >>),
       Line("G01 X50 Y0", << >>),
       Line("G01 X50 Y50", << >>),
       Line("G01 X0 Y50", << >>),
       Line("G01 X0 Y0", << >>),
       Line("G00 Z5", << >>) >>

DrillingLines(tk, rpm, feed, xy, depth) ==
    << Line("; -- Drilling", << tk.key, tk.dia, rpm, feed >>),
       Line("G00 X Y Z5", xy),
       Line("G01 Z- F", << depth, feed >>),
       Line("G00 Z5", << >>) >>

\* one iteration of the loop over the plan: the step's lines, or what it raises
StepLines(kb, step, defaults) ==
    LET op == Get(step.operation)
        rpm == OrDefault(Get(step.rpm), defaults.rpm)
        feed == OrDefault(Get(step.feed_rate_mm_per_min), defaults.feed)
        tool == GetDefault(step.tool, Str("unknown"))
    IN  IF ~rpm.ok THEN rpm
        ELSE IF ~feed.ok THEN feed
        ELSE IF IsOp(op, "face_milling")
        THEN LET depth == ToNumber(GetDefault(step.depth_mm, Num(FaceDepthDefault)))
             IN IF ~depth.ok THEN depth
                ELSE Ok(FaceMillingLines(tool, rpm.val, feed.val, depth.val))
        ELSE IF IsOp(op, "drilling")
        THEN LET dia == ToNumber(GetDefault(step.diameter_mm, Num(DrillDiaDefault)))
                 depth == ToNumber(GetDefault(step.depth_mm, Num(DrillDepthDefault)))
                 xy == PositionXY(GetDefault(step.position, List(<< Num(0), Num(0) >>)))
             IN IF ~dia.ok THEN dia
                ELSE IF ~depth.ok THEN depth
                ELSE IF ~xy.ok THEN xy
                ELSE LET tk == DrillingTool(kb, tool, dia.val)
                     IN IF ~tk.ok THEN tk
                        ELSE Ok(DrillingLines(tk.val, rpm.val, feed.val, xy.val, depth.val))
        ELSE Ok(<< Line("; Unsupported operation:", << op >>) >>)

RECURSIVE BodyLinesFrom(_, _, _, _)
BodyLinesFrom(kb, plan, defaults, i) ==
    IF i > Len(plan) THEN Ok(<< >>)
    ELSE LET here == StepLines(kb, plan[i], defaults)
         IN IF ~here.ok THEN here
            ELSE LET rest == BodyLinesFrom(kb, plan, defaults, i + 1)
                 IN IF ~rest.ok THEN rest ELSE Ok(here.val \o rest.val)

\* CodeAgent.generate_pseudo_gcode(plan, material=material)
GeneratePseudoGcode(kb, plan, material) ==
    LET defaults == GenerateDefaults(kb, material)
        first_step_rpm == IF Len(plan) > 0 THEN Get(plan[1].rpm) ELSE None
        initial_rpm == OrDefault(first_step_rpm, defaults.rpm)
    IN  IF ~initial_rpm.ok THEN initial_rpm
        ELSE LET body == BodyLinesFrom(kb, plan, defaults, 1)
             IN IF ~body.ok THEN body
                ELSE Ok(Text(<< HeaderLine, Line("; MATERIAL:", << material >>),
                                Line("G90 G21", << >>), Line("M03 S", << initial_rpm.val >>) >>
                             \o body.val
                             \o << Line("M05", << >>), EndLine >>))

\* ------------------------------------------------------------------ schemas
\* Optional[float] = Field(gt=0): None, or a number > 0
OptionalPositive(v) == IsNone(v) \/ (IsNum(v) /\ v.n > 0)

\* PlanStep(**fields): pydantic validation; a missing field defaults to None
PlanStepFieldsOk(f) ==
    /\ IsStr(f.operation) /\ f.operation.s \in {"face_milling", "drilling"}
    /\ OptionalPositive(Get(f.depth_mm))
    /\ OptionalPositive(Get(f.diameter_mm))
    /\ \/ IsNone(Get(f.position))
       \/ /\ IsList(f.position)
          /\ Len(f.position.l) = 2
          /\ \A i \in 1..2 : IsNum(f.position.l[i])
    /\ IsNone(Get(f.tool)) \/ IsStr(f.tool)
    /\ OptionalPositive(Get(f.rpm))
    /\ OptionalPositive(Get(f.feed_rate_mm_per_min))

\* the constructed PlanStep, as model_dump() shows it: every key present
PlanStepDump(f) ==
    Step(f.operation, Get(f.depth_mm), Get(f.diameter_mm), Get(f.position), Get(f.tool),
         Get(f.rpm), Get(f.feed_rate_mm_per_min))

PlanStepCtor(f) ==
    IF PlanStepFieldsOk(f) THEN Ok(PlanStepDump(f))
    ELSE Raise("ValidationError", "validation error for PlanStep")

\* PlanResult(**result_dict): plan is a list of PlanStep, gcode a str (not
\* Optional), valid a bool, errors a list of str
PlanResultFieldsOk(r) ==
    /\ \A i \in 1..Len(r.plan) : PlanStepFieldsOk(r.plan[i])
    /\ ~IsNone(r.gcode)
    /\ r.valid \in BOOLEAN
PlanResultCtor(r) ==
    IF PlanResultFieldsOk(r) THEN Ok(r)
    ELSE Raise("ValidationError", "validation error for PlanResult")

\* ---------------------------------------------------------- the part spec
Hole(dia, depth, pos) == [diameter_mm |-> dia, depth_mm |-> depth, position |-> pos]
PartSpecOf(material, holes) == [material |-> material, drill_holes |-> holes]

\* part_spec.get("material", "aluminum_6061")
PlannerMaterial(spec) == GetDefault(spec.material, Str("aluminum_6061")).s
\* part_spec.get("drill_holes") or []
PlannerHoles(spec) ==
    IF Truthy(Get(spec.drill_holes)) THEN spec.drill_holes.l ELSE << >>

\* ------------------------------------------------ LLMPlannerAgent: rule-based
MinDiameter == 30
MinDepth == 50

\* materials.get(material, {}).get("recommended_rpm", 1000), and the feed
PlannerDefaultsUnset(kb, material) ==
    IF material \in DOMAIN kb.materials
    THEN [rpm |-> GetDefault(kb.materials[material].recommended_rpm, Num(DefaultRpm)),
          feed |-> GetDefault(kb.materials[material].recommended_feed_mm_per_min,
                              Num(DefaultFeed))]
    ELSE [rpm |-> None, feed |-> None]
PlannerDefaults(kb, material) ==
    IF material \in DOMAIN kb.materials
    THEN [rpm |-> GetDefault(kb.materials[material].recommended_rpm, Num(DefaultRpm)),
          feed |-> GetDefault(kb.materials[material].recommended_feed_mm_per_min,
                              Num(DefaultFeed))]
    ELSE [rpm |-> Num(DefaultRpm), feed |-> Num(DefaultFeed)]

\* operations.get("face_milling", {}).get("default_tool", "endmill_6mm")
FaceMillToolBlank(kb) == Str(" ")
FaceMillTool(kb) ==
    IF "face_milling" \in DOMAIN kb.operations
    THEN GetDefault(kb.operations["face_milling"].default_tool, Str("endmill_6mm"))
    ELSE Str("endmill_6mm")

Max(a, b) == IF a >= b THEN a ELSE b

\* if diameter <= 0 or depth <= 0: both are raised to the minimum defaults
ClampedDiameterKeeps(diameter, depth) == diameter
ClampedDiameter(diameter, depth) ==
    IF diameter <= 0 \/ depth <= 0 THEN Max(diameter, MinDiameter) ELSE diameter
ClampedDepthAlways(diameter, depth) == Max(depth, MinDepth)
ClampedDepth(diameter, depth) ==
    IF diameter <= 0 \/ depth <= 0 THEN Max(depth, MinDepth) ELSE depth

\* the inline tool selection of _rule_based_plan_process
RuleBasedToolKeyNearestOnly(tools, diameter) ==
    IF Candidates(tools) # << >> THEN tools[ClosestIndex(tools, diameter)].key
    ELSE "drill_3mm"
RuleBasedToolKey(tools, diameter) ==
    IF HasKey(tools, DrillKey(diameter)) THEN DrillKey(diameter)
    ELSE IF Candidates(tools) # << >> THEN tools[ClosestIndex(tools, diameter)].key
    ELSE "drill_3mm"

RuleBasedFaceStep(kb, material) ==
    PlanStepCtor(Step(Str("face_milling"), Num(FaceDepthDefault), Absent, Absent,
                      FaceMillTool(kb), PlannerDefaults(kb, material).rpm,
                      PlannerDefaults(kb, material).feed))

\* one iteration of the loop over the holes
RuleBasedHoleStep(kb, material, hole) ==
    LET diameter == GetDefault(hole.diameter_mm, Num(MinDiameter))
        depth == GetDefault(hole.depth_mm, Num(MinDepth))
        position == GetDefault(hole.position, List(<< Num(0), Num(0) >>))
    IN  IF ~IsNum(diameter) \/ ~IsNum(depth)
        THEN Raise("TypeError", "'<=' not supported")
        ELSE LET dia == ClampedDiameter(diameter.n, depth.n)
                 dep == ClampedDepth(diameter.n, depth.n)
             IN PlanStepCtor(Step(Str("drilling"), Num(dep), Num(dia), position,
                                  Str(RuleBasedToolKey(kb.tools, dia)),
                                  PlannerDefaults(kb, material).rpm,
                                  PlannerDefaults(kb, material).feed))

RECURSIVE RuleBasedHolesFrom(_, _, _, _)
RuleBasedHolesFrom(kb, material, holes, i) ==
    IF i > Len(holes) THEN Ok(<< >>)
    ELSE LET here == RuleBasedHoleStep(kb, material, holes[i])
         IN IF ~here.ok THEN here
            ELSE LET rest == RuleBasedHolesFrom(kb, material, holes, i + 1)
                 IN IF ~rest.ok THEN rest ELSE Ok(<< here.val >> \o rest.val)

\* LLMPlannerAgent._rule_based_plan_process(part_spec)
RuleBasedPlanProcess(kb, spec) ==
    LET material == PlannerMaterial(spec)
        face == RuleBasedFaceStep(kb, material)
    IN  IF ~face.ok THEN face
        ELSE LET drills == RuleBasedHolesFrom(kb, material, PlannerHoles(spec), 1)
             IN IF ~drills.ok THEN drills ELSE Ok(<< face.val >> \o drills.val)

\* -------------------------------------------------- LLMPlannerAgent: primary
\* str.lower() on the operation names a response can carry
Lower(s) ==
    CASE s = "DRILLING" -> "drilling"
      [] s = "Face_Milling" -> "face_milling"
      [] OTHER -> s

\* "key" not in step_data or step_data["key"] is None
MissingOrNone(v) == IsAbsent(v) \/ IsNone(v)
\* "key" not in step_data or not step_data["key"]
MissingOrFalsy(v) == IsAbsent(v) \/ ~Truthy(v)

\* the inline tool selection of _validate_and_fix_plan_step; int(dia) and
\* abs(d - dia) raise for a diameter that is no number
FixStepToolKey(tools, dia) ==
    IF ~IsNum(dia) THEN ToNumber(dia)
    ELSE IF HasKey(tools, DrillKey(dia.n)) THEN Ok(DrillKey(dia.n))
    ELSE IF Candidates(tools) # << >> THEN Ok(tools[ClosestIndex(tools, dia.n)].key)
    ELSE Ok("drill_3mm")

\* LLMPlannerAgent._validate_and_fix_plan_step(step_data, material):
\* the repaired dict, or the exception that drops the step
ValidateAndFixPlanStepKeepsAll(kb, sd, material) == Ok(sd)
ValidateAndFixPlanStep(kb, sd, material) ==
    IF ~IsStr(GetDefault(sd.operation, Str("")))
    THEN Raise("AttributeError", "object has no attribute 'lower'")
    ELSE LET op == Lower(GetDefault(sd.operation, Str("")).s)
             defaults == PlannerDefaults(kb, material)
             withSpeeds(x) ==
                 [x EXCEPT !.rpm = IF MissingOrNone(@) THEN defaults.rpm ELSE @,
                           !.feed_rate_mm_per_min = IF MissingOrNone(@) THEN defaults.feed ELSE @]
         IN  IF op \notin {"face_milling", "drilling"}
             THEN Raise("ValueError", "Invalid operation")
             ELSE IF op = "face_milling"
             THEN Ok(withSpeeds(
                     [sd EXCEPT !.depth_mm = IF MissingOrNone(@) THEN Num(FaceDepthDefault) ELSE @,
                                !.tool = IF MissingOrFalsy(@) THEN Str("endmill_6mm") ELSE @]))
             ELSE IF MissingOrNone(sd.diameter_mm)
             THEN Raise("ValueError", "Drilling operation requires diameter_mm")
             ELSE IF MissingOrNone(sd.depth_mm)
             THEN Raise("ValueError", "Drilling operation requires depth_mm")
             ELSE IF MissingOrFalsy(sd.position)
             THEN Raise("ValueError", "Drilling operation requires position")
             ELSE IF MissingOrFalsy(sd.tool)
             THEN LET key == FixStepToolKey(kb.tools, sd.diameter_mm)
                  IN IF ~key.ok THEN key
                     ELSE Ok(withSpeeds([sd EXCEPT !.tool = Str(key.val)]))
             ELSE Ok(withSpeeds(sd))

\* the two loops of _llm_plan_process: repair each parsed item, then build a
\* PlanStep from each repaired dict; an item that raises in either is skipped
IsDict(item) == "operation" \in DOMAIN item
SurvivingStep(kb, item, material) ==
    IF ~IsDict(item) THEN Raise("AttributeError", "object has no attribute 'get'")
    ELSE LET fixed == ValidateAndFixPlanStep(kb, item, material)
         IN IF ~fixed.ok THEN fixed ELSE PlanStepCtor(fixed.val)

RECURSIVE SurvivingStepsFrom(_, _, _, _)
SurvivingStepsFromAbortsOnDrop(kb, data, material, i) ==
    IF i > Len(data) THEN << >>
    ELSE LET here == SurvivingStep(kb, data[i], material)
         IN IF here.ok THEN << here.val >> \o SurvivingStepsFrom(kb, data, material, i + 1)
            ELSE << >>
SurvivingStepsFrom(kb, data, material, i) ==
    IF i > Len(data) THEN << >>
    ELSE LET here == SurvivingStep(kb, data[i], material)
         IN (IF here.ok THEN << here.val >> ELSE << >>)
            \o SurvivingStepsFrom(kb, data, material, i + 1)

\* A reply of the text-generation collaborator: the call fails, or returns
\* text that json.loads rejects, or text that parses to a list of items.
LLMFails == [kind |-> "error"]
LLMGarbage == [kind |-> "text"]
LLMJson(data) == [kind |-> "json", data |-> data]

\* LLMPlannerAgent._llm_plan_process(part_spec), given the collaborator's reply
LLMPlanProcess(kb, spec, reply) ==
    IF reply.kind = "error" THEN Raise("LangChainException", "collaborator error")
    ELSE IF reply.kind = "text" THEN Raise("ValueError", "Invalid JSON response from LLM")
    ELSE LET plan_steps == SurvivingStepsFrom(kb, reply.data, PlannerMaterial(spec), 1)
         IN IF Len(plan_steps) = 0
            THEN Raise("ValueError", "No valid plan steps generated from LLM")
            ELSE Ok(plan_steps)

\* LLMPlannerAgent.plan_process(part_spec); llm is the planner's configuration
\* (use_llm and an initialised client), reply what the collaborator answers
RecoversFromValueErrorOnly(attempt) == ~attempt.ok /\ attempt.exc = "ValueError"
RecoversFrom(attempt) == ~attempt.ok
PlanProcess(kb, llm, spec, reply) ==
    IF llm /\ ~RecoversFrom(LLMPlanProcess(kb, spec, reply))
    THEN LLMPlanProcess(kb, spec, reply)
    ELSE RuleBasedPlanProcess(kb, spec)

\* ------------------------------------------------------------- input sets
Origin == List(<< Num(0), Num(0) >>)

\* drill holes a caller may submit: well-formed ones, one with a non-positive
\* diameter, and one whose position holds no numbers
Holes ==
    { Hole(Num(60), Num(100), Origin),
      Hole(Num(35), Num(20), List(<< Num(100), Num(200) >>)),
      Hole(Num(-10), Num(20), Origin),
      Hole(Num(60), Num(100), List(<< Str("a"), Str("b") >>)) }

RECURSIVE SeqsUpTo(_, _)
SeqsUpTo(S, n) ==
    IF n = 0 THEN { << >> }
    ELSE LET shorter == SeqsUpTo(S, n - 1)
         IN shorter \cup { Append(q, x) : q \in { r \in shorter : Len(r) = n - 1 }, x \in S }

Materials == { Str("aluminum_6061"), Str("steel_1018"), Str("titanium") }

\* PartSpec-shaped inputs: drill_holes absent, null, empty, or a list of holes
PartSpecs ==
    { PartSpecOf(m, h) : m \in Materials,
                         h \in {Absent, None} \cup { List(q) : q \in SeqsUpTo(Holes, MaxHoles) } }

\* step dicts handed to the validator and the generator directly
SampleSteps ==
    { Step(Str("face_milling"), Num(2), Absent, Absent, Absent, Absent, Absent),
      Step(Str("face_milling"), None, None, None, Str("endmill_6mm"), Num(500), Num(50)),
      Step(Str("drilling"), Num(100), Num(60), Origin, Absent, Absent, Absent),
      Step(Str("drilling"), Num(50), Num(35), Origin, Str("drill_3mm"), Num(9000), Num(400)),
      Step(Str("drilling"), Num(100), Num(60), List(<< Str("a"), Str("b") >>), Absent, Absent, Absent),
      Step(Str("drilling"), Num(100), Num(-10), Origin, Absent, Absent, Absent),
      Step(Str("drilling"), Str("deep"), Num(60), Origin, Absent, Absent, Absent),
      Step(Str("tapping"), Absent, Absent, Absent, Absent, Absent, Absent) }

Plans == SeqsUpTo(SampleSteps, MaxSteps)

\* program texts handed to the validator directly
Gcodes ==
    { None, Text(<< >>), Text(<< HeaderLine >>), Text(<< EndLine >>),
      Text(<< Line("G90 G21", << >>) >>), Text(<< HeaderLine, Line("M05", << >>), EndLine >>) }

\* items a collaborator's JSON reply may hold
ReplyItems ==
    { Step(Str("face_milling"), Absent, Absent, Absent, Absent, Absent, Absent),
      Step(Str("drilling"), Num(100), Num(65), Origin, Absent, Num(8000), Absent),
      Step(Str("drilling"), Num(100), Absent, Origin, Absent, Absent, Absent),
      Step(Str("drilling"), Num(100), Num(60), Origin, Str("unknown"), Absent, Absent),
      Step(Str("tapping"), Num(100), Num(60), Origin, Absent, Absent, Absent),
      Step(Str("face_milling"), Num(2), Absent, Absent, Str(" "), Absent, Absent) }

Replies == { LLMFails, LLMGarbage } \cup { LLMJson(q) : q \in SeqsUpTo(ReplyItems, MaxLLMSteps) }

\* ------------------------------------------------------------------ state
VARIABLES
    db,       \* the Knowledge Base the agents loaded at construction
    llm,      \* whether the planner has an LLM client (use_llm and self.llm)
    pc,       \* where Orchestrator.run stands
    spec,     \* run's argument
    state,    \* run's local state: the plan and the program so far
    result,   \* what run returned or raised
    call      \* the last direct call of a component, with what it returned

vars == << db, llm, pc, spec, state, result, call >>

NoCall == [fn |-> "none"]
NoSpec == PartSpecOf(Absent, Absent)
NoState == [plan |-> << >>, gcode |-> None]
NoResult == [t |-> "none"]

Init ==
    /\ db \in DBs
    /\ llm \in BOOLEAN
    /\ pc = "idle"
    /\ spec = NoSpec
    /\ state = NoState
    /\ result = NoResult
    /\ call = NoCall

\* ------------------------------------------------------------ Orchestrator
\* the dict run returns
PlanResultAlwaysValid(plan, gcode, valid, errors) ==
    Ok([plan |-> plan, gcode |-> gcode, valid |-> TRUE, errors |-> errors])
PlanResult(plan, gcode, valid, errors) ==
    Ok([plan |-> plan, gcode |-> gcode, valid |-> valid, errors |-> errors])

\* spec.get("material", "unknown")
RunMaterial(s) == GetDefault(s.material, Str("unknown")).s

\* len(spec.get("drill_holes", [])): len(None) is a TypeError
HolesCountRaises(s) == ~IsList(GetDefault(s.drill_holes, List(<< >>)))

\* run, up to the first try block (lines 32-36)
RunStart ==
    /\ pc = "idle"
    /\ call = NoCall
    /\ \E s \in PartSpecs :
        /\ spec' = s
        /\ IF HolesCountRaises(s)
           THEN /\ pc' = "raised"
                /\ result' = Raise("TypeError", "object of type 'NoneType' has no len()")
           ELSE /\ pc' = "plan"
                /\ result' = NoResult
    /\ state' = NoState
    /\ UNCHANGED << db, llm, call >>

\* Step 1: planning
RunPlanNormalisesSpec ==
    /\ pc = "plan"
    /\ \E reply \in (IF llm THEN Replies ELSE { LLMFails }) :
        LET r == PlanProcess(db, llm, spec, reply)
        IN IF r.ok
           THEN /\ state' = [state EXCEPT !.plan = r.val]
                /\ pc' = "validate_pre"
                /\ UNCHANGED result
           ELSE /\ result' = PlanResult(<< >>, None, FALSE, << Err(0, "Planning error: " \o r.msg) >>)
                /\ pc' = "done"
                /\ UNCHANGED state
    /\ spec' = [spec EXCEPT !.drill_holes = List(PlannerHoles(spec))]
    /\ UNCHANGED << db, llm, call >>
RunPlan ==
    /\ pc = "plan"
    /\ \E reply \in (IF llm THEN Replies ELSE { LLMFails }) :
        LET r == PlanProcess(db, llm, spec, reply)
        IN IF r.ok
           THEN /\ state' = [state EXCEPT !.plan = r.val]
                /\ pc' = "validate_pre"
                /\ UNCHANGED result
           ELSE /\ result' = PlanResult(<< >>, None, FALSE, << Err(0, "Planning error: " \o r.msg) >>)
                /\ pc' = "done"
                /\ UNCHANGED state
    /\ UNCHANGED << db, llm, spec, call >>

\* Step 2: pre-codegen validation
RunValidatePreNoGate ==
    /\ pc = "validate_pre"
    /\ LET v == Validate(state.plan, None)
       IN IF ~v.ok
          THEN /\ result' = PlanResult(state.plan, None, FALSE,
                                       << Err(0, "Validation error: " \o v.msg) >>)
               /\ pc' = "done"
          ELSE /\ pc' = "generate"
               /\ UNCHANGED result
    /\ UNCHANGED << db, llm, spec, state, call >>
RunValidatePre ==
    /\ pc = "validate_pre"
    /\ LET v == Validate(state.plan, None)
       IN IF ~v.ok
          THEN /\ result' = PlanResult(state.plan, None, FALSE,
                                       << Err(0, "Validation error: " \o v.msg) >>)
               /\ pc' = "done"
          ELSE IF ~v.val.valid
          THEN /\ result' = PlanResult(state.plan, None, FALSE, v.val.errors)
               /\ pc' = "done"
          ELSE /\ pc' = "generate"
               /\ UNCHANGED result
    /\ UNCHANGED << db, llm, spec, state, call >>

\* Step 3: code generation
RunGenerateLosesPlan ==
    /\ pc = "generate"
    /\ LET g == GeneratePseudoGcode(db, state.plan, RunMaterial(spec))
       IN IF ~g.ok
          THEN /\ result' = PlanResult(<< >>, None, FALSE,
                                       << Err(0, "G-code generation error: " \o g.msg) >>)
               /\ pc' = "done"
               /\ UNCHANGED state
          ELSE /\ state' = [state EXCEPT !.gcode = g.val]
               /\ pc' = "validate_post"
               /\ UNCHANGED result
    /\ UNCHANGED << db, llm, spec, call >>
RunGenerate ==
    /\ pc = "generate"
    /\ LET g == GeneratePseudoGcode(db, state.plan, RunMaterial(spec))
       IN IF ~g.ok
          THEN /\ result' = PlanResult(state.plan, None, FALSE,
                                       << Err(0, "G-code generation error: " \o g.msg) >>)
               /\ pc' = "done"
               /\ UNCHANGED state
          ELSE /\ state' = [state EXCEPT !.gcode = g.val]
               /\ pc' = "validate_post"
               /\ UNCHANGED result
    /\ UNCHANGED << db, llm, spec, call >>

\* Step 4: post-codegen validation, and the return
RunValidatePost ==
    /\ pc = "validate_post"
    /\ LET v == Validate(state.plan, state.gcode)
       IN IF ~v.ok
          THEN result' = PlanResult(state.plan, state.gcode, FALSE,
                                    << Err(0, "G-code validation error: " \o v.msg) >>)
          ELSE IF ~v.val.valid
          THEN result' = PlanResult(state.plan, state.gcode, FALSE, v.val.errors)
          ELSE result' = PlanResult(state.plan, state.gcode, TRUE, << >>)
    /\ pc' = "done"
    /\ UNCHANGED << db, llm, spec, state, call >>

\* the /plan endpoint builds the exposed PlanResult from what run returned
RunExpose ==
    /\ pc = "done"
    /\ result' = PlanResultCtor(result.val)
    /\ pc' = "exposed"
    /\ UNCHANGED << db, llm, spec, state, call >>

\* the caller is back in control and may call again
RunReturn ==
    /\ pc \in {"done", "raised", "exposed"}
    /\ pc' = "idle"
    /\ spec' = NoSpec
    /\ state' = NoState
    /\ result' = NoResult
    /\ UNCHANGED << db, llm, call >>

\* ------------------------------------------------ direct calls of components
Diameters == { -15, 0, 5, 30, 35, 60, 65, 69, 70, 100, 120 }

CallPickTool ==
    /\ pc = "idle"
    /\ call = NoCall
    /\ \E d \in Diameters :
        call' = [fn |-> "_pick_tool_for_drilling", d |-> d,
                 ret |-> PickToolForDrilling(db.tools, d)]
    /\ UNCHANGED << db, llm, pc, spec, state, result >>

CallValidate ==
    /\ pc = "idle"
    /\ call = NoCall
    /\ \E plan \in Plans, gcode \in Gcodes :
        call' = [fn |-> "validate", plan |-> plan, gcode |-> gcode,
                 ret |-> Validate(plan, gcode)]
    /\ UNCHANGED << db, llm, pc, spec, state, result >>

CallGenerate ==
    /\ pc = "idle"
    /\ call = NoCall
    /\ \E plan \in Plans, material \in Materials :
        call' = [fn |-> "generate_pseudo_gcode", plan |-> plan, material |-> material.s,
                 nth |-> 1, ret |-> GeneratePseudoGcode(db, plan, material.s)]
    /\ UNCHANGED << db, llm, pc, spec, state, result >>

\* a second call on the same CodeAgent instance, with the same arguments
CallGenerateAgainAccumulates ==
    /\ pc = "idle"
    /\ call.fn = "generate_pseudo_gcode"
    /\ call.nth = 1
    /\ LET again == GeneratePseudoGcode(db, call.plan, call.material)
       IN call' = [call EXCEPT !.nth = 2,
                               !.ret = IF @.ok /\ again.ok
                                       THEN Ok(Text(@.val.lines \o again.val.lines))
                                       ELSE again]
    /\ UNCHANGED << db, llm, pc, spec, state, result >>
CallGenerateAgain ==
    /\ pc = "idle"
    /\ call.fn = "generate_pseudo_gcode"
    /\ call.nth = 1
    /\ call' = [call EXCEPT !.nth = 2,
                            !.ret = GeneratePseudoGcode(db, call.plan, call.material)]
    /\ UNCHANGED << db, llm, pc, spec, state, result >>

CallRuleBased ==
    /\ pc = "idle"
    /\ call = NoCall
    /\ \E s \in PartSpecs :
        call' = [fn |-> "_rule_based_plan_process", spec |-> s,
                 ret |-> RuleBasedPlanProcess(db, s)]
    /\ UNCHANGED << db, llm, pc, spec, state, result >>

CallPlanProcess ==
    /\ pc = "idle"
    /\ call = NoCall
    /\ \E s \in PartSpecs, reply \in (IF llm THEN Replies ELSE { LLMFails }) :
        call' = [fn |-> "plan_process", spec |-> s, reply |-> reply,
                 ret |-> PlanProcess(db, llm, s, reply)]
    /\ UNCHANGED << db, llm, pc, spec, state, result >>

\* the direct call has returned to the caller
CallReturn ==
    /\ call # NoCall
    /\ call' = NoCall
    /\ UNCHANGED << db, llm, pc, spec, state, result >>

Next ==
    \/ RunStart
    \/ RunPlan
    \/ RunValidatePre
    \/ RunGenerate
    \/ RunValidatePost
    \/ RunExpose
    \/ RunReturn
    \/ CallPickTool
    \/ CallValidate
    \/ CallGenerate
    \/ CallGenerateAgain
    \/ CallRuleBased
    \/ CallPlanProcess
    \/ CallReturn

Spec == Init /\ [][Next]_vars

\* ------------------------------------------- the planner, one step at a time
\* holes over a grid of diameters and depths around zero and the minimums
GridHoles ==
    { Hole(Num(d), Num(h), Origin) : d \in { -10, 0, 10, 60 }, h \in { 0, 20, 100 } }
GridSpecs ==
    { PartSpecOf(m, List(q)) : m \in Materials, q \in SeqsUpTo(GridHoles, MaxHoles) }

\* part specs for following one plan_process call
SmallSpecs ==
    { PartSpecOf(m, h) :
        m \in Materials,
        h \in { None, List(<< Hole(Num(60), Num(100), Origin) >>),
                List(<< Hole(Num(60), Num(100), List(<< Str("a"), Str("b") >>)) >>) } }

CallRuleBasedGrid ==
    /\ pc = "idle"
    /\ call = NoCall
    /\ \E s \in GridSpecs :
        call' = [fn |-> "_rule_based_plan_process", spec |-> s,
                 ret |-> RuleBasedPlanProcess(db, s)]
    /\ UNCHANGED << db, llm, pc, spec, state, result >>

\* plan_process is entered: `if self.use_llm and self.llm` (line 377).
\* invoked counts self.llm.invoke calls, ruleRuns the rule-based runs.
PlanProcessEnter ==
    /\ pc = "idle"
    /\ call = NoCall
    /\ \E s \in SmallSpecs, reply \in (IF llm THEN Replies ELSE { LLMFails }) :
        call' = [fn |-> "plan_process", spec |-> s, reply |-> reply,
                 at |-> IF llm THEN "attempt_primary" ELSE "rule_based",
                 invoked |-> 0, ruleRuns |-> 0, ret |-> NoResult]
    /\ UNCHANGED << db, llm, pc, spec, state, result >>

\* the try block: _llm_plan_process invokes the collaborator once and either
\* returns its plan or raises into the except clause, which falls through
PlanProcessPrimaryRetries ==
    /\ call.fn = "plan_process"
    /\ call.at = "attempt_primary"
    /\ LET attempt == LLMPlanProcess(db, call.spec, call.reply)
       IN call' = [call EXCEPT !.invoked = @ + 1,
                               !.at = IF ~RecoversFrom(attempt) THEN "returned"
                                      ELSE IF call.invoked = 0 THEN "attempt_primary"
                                      ELSE "rule_based",
                               !.ret = IF RecoversFrom(attempt) THEN @ ELSE attempt]
    /\ UNCHANGED << db, llm, pc, spec, state, result >>
PlanProcessPrimary ==
    /\ call.fn = "plan_process"
    /\ call.at = "attempt_primary"
    /\ LET attempt == LLMPlanProcess(db, call.spec, call.reply)
       IN call' = [call EXCEPT !.invoked = @ + 1,
                               !.at = IF RecoversFrom(attempt) THEN "rule_based" ELSE "returned",
                               !.ret = IF RecoversFrom(attempt) THEN @ ELSE attempt]
    /\ UNCHANGED << db, llm, pc, spec, state, result >>

\* return self._rule_based_plan_process(part_spec) (line 385)
PlanProcessRuleBased ==
    /\ call.fn = "plan_process"
    /\ call.at = "rule_based"
    /\ call' = [call EXCEPT !.ruleRuns = @ + 1,
                            !.at = "returned",
                            !.ret = RuleBasedPlanProcess(db, call.spec)]
    /\ UNCHANGED << db, llm, pc, spec, state, result >>

\* the planner's caller has its answer
PlannerReturn ==
    /\ call # NoCall
    /\ call.fn = "plan_process" => call.at = "returned"
    /\ call' = NoCall
    /\ UNCHANGED << db, llm, pc, spec, state, result >>

NextPlanner ==
    \/ CallRuleBasedGrid
    \/ PlanProcessEnter
    \/ PlanProcessPrimary
    \/ PlanProcessRuleBased
    \/ PlannerReturn

SpecPlanner == Init /\ [][NextPlanner]_vars

\* ================================================================== claims
Returned == pc = "done"
RunEnded == pc \in {"done", "raised"}

\* a hole with diameter > 0, depth > 0 and a position of two numbers
WellFormedHole(h) ==
    /\ IsNum(h.diameter_mm) /\ h.diameter_mm.n > 0
    /\ IsNum(h.depth_mm) /\ h.depth_mm.n > 0
    /\ IsList(h.position) /\ Len(h.position.l) = 2
    /\ \A i \in 1..2 : IsNum(h.position.l[i])

\* the holes of a PartSpec-shaped input (none when absent, null or empty)
HolesOf(s) == IF IsList(s.drill_holes) THEN s.drill_holes.l ELSE << >>
WellFormedSpec(s) ==
    /\ IsStr(s.material)
    /\ \A i \in 1..Len(HolesOf(s)) : WellFormedHole(HolesOf(s)[i])
KnownMaterial(s) == IsStr(s.material) /\ s.material.s \in DOMAIN db.materials
HasDrillCandidate(tools) == \E i \in 1..Len(tools) : IsDrillCandidate(tools[i])

\* C1: Orchestrator.run never raises to its caller: for every PartSpec-shaped
\* input it returns a result (plan, gcode, valid, errors), and whenever valid
\* is false the errors list is non-empty.
C1_RunNeverRaises ==
    RunEnded =>
        /\ pc # "raised"
        /\ result.ok
        /\ ~result.val.valid => Len(result.val.errors) > 0

\* C2: for a well-formed PartSpec with a known material and no drill holes
\* (absent, null or empty), run returns a plan of exactly one FACE_MILLING
\* step of depth 0.2 mm, valid = true and a program text.  Stated for the
\* runs whose planner has no LLM client, where the plan is the rule-based one.
C2_NoHolesOneFaceStep ==
    (RunEnded /\ ~llm /\ WellFormedSpec(spec) /\ KnownMaterial(spec) /\ Len(HolesOf(spec)) = 0) =>
        /\ pc = "done"
        /\ result.ok
        /\ Len(result.val.plan) = 1
        /\ result.val.plan[1].operation = Str("face_milling")
        /\ result.val.plan[1].depth_mm = Num(2)
        /\ result.val.valid
        /\ ~IsNone(result.val.gcode)

\* the same runs with drill_holes absent or empty do end that way
C2_AbsentOrEmptyHolesOneFaceStep ==
    (RunEnded /\ ~llm /\ WellFormedSpec(spec) /\ KnownMaterial(spec)
       /\ spec.drill_holes \in {Absent, List(<< >>)}) =>
        /\ pc = "done"
        /\ Len(result.val.plan) = 1
        /\ result.val.plan[1].operation = Str("face_milling")
        /\ result.val.plan[1].depth_mm = Num(2)
        /\ result.val.valid
        /\ ~IsNone(result.val.gcode)

\* C3: for a well-formed PartSpec with N drill holes the rule-based strategy
\* returns exactly N+1 steps: one FACE_MILLING step, then N DRILLING steps,
\* the i-th carrying the diameter, depth and position of the i-th hole.
C3_RuleBasedOneStepPerHole ==
    (call.fn = "_rule_based_plan_process" /\ WellFormedSpec(call.spec)) =>
        LET holes == HolesOf(call.spec)
            plan == call.ret.val
        IN  /\ call.ret.ok
            /\ Len(plan) = Len(holes) + 1
            /\ plan[1].operation = Str("face_milling")
            /\ \A i \in 1..Len(holes) :
                /\ plan[i + 1].operation = Str("drilling")
                /\ plan[i + 1].diameter_mm = holes[i].diameter_mm
                /\ plan[i + 1].depth_mm = holes[i].depth_mm
                /\ plan[i + 1].position = holes[i].position

C3_Witness ==
    /\ call.fn = "_rule_based_plan_process"
    /\ WellFormedSpec(call.spec)
    /\ Len(HolesOf(call.spec)) = 2
    /\ HolesOf(call.spec)[1] # HolesOf(call.spec)[2]
    /\ call.ret.ok
    /\ Len(call.ret.val) = 3

\* every line of a program that is an "Unsupported operation" comment
NoUnsupportedComment(gcode) ==
    \A i \in 1..Len(gcode.lines) : gcode.lines[i].k # "; Unsupported operation:"

\* C4: round trip: for every plan that passes structural validation,
\* generate_pseudo_gcode completes, emits no "Unsupported operation" comment,
\* and the program passes post-generation validation.  Stated for the
\* Knowledge Bases that hold a drill-type tool with a numeric diameter.
C4_RoundTrip ==
    (/\ call.fn = "generate_pseudo_gcode"
     /\ HasDrillCandidate(db.tools)
     /\ Validate(call.plan, None).ok
     /\ Validate(call.plan, None).val.valid) =>
        /\ call.ret.ok
        /\ NoUnsupportedComment(call.ret.val)
        /\ Validate(call.plan, call.ret.val).ok
        /\ Validate(call.plan, call.ret.val).val.valid

\* C5: post-generation validation never returns isValid = true when the
\* program text is empty, lacks the header marker or lacks the terminator
\* marker; the returned error list is then non-empty.
LacksLine(gcode, line) == \A i \in 1..Len(gcode.lines) : gcode.lines[i] # line
C5_MarkersRequired ==
    (/\ call.fn = "validate"
     /\ ~IsNone(call.gcode)
     /\ \/ Len(call.gcode.lines) = 0
        \/ LacksLine(call.gcode, HeaderLine)
        \/ LacksLine(call.gcode, EndLine)
     /\ call.ret.ok) =>
        /\ ~call.ret.val.valid
        /\ Len(call.ret.val.errors) > 0

C5_Witness ==
    /\ call.fn = "validate"
    /\ call.plan = << Step(Str("face_milling"), Num(2), Absent, Absent, Absent, Absent, Absent) >>
    /\ call.gcode = Text(<< HeaderLine >>)
    /\ call.ret.ok
    /\ ~call.ret.val.valid
    /\ call.ret.val.errors = << Err(0, "G-code missing terminator (M30)") >>

\* C6: when the material is absent from the Knowledge Base and planning goes
\* through the rule-based path, run returns valid = false, a non-empty errors
\* list and gcode = null.
C6_UnknownMaterialAborts ==
    (Returned /\ ~llm /\ WellFormedSpec(spec) /\ ~KnownMaterial(spec)) =>
        /\ ~result.val.valid
        /\ Len(result.val.errors) > 0
        /\ IsNone(result.val.gcode)

\* the rpm and feed values a program's spindle and block lines carry
SpindleSpeeds(gcode) ==
    { gcode.lines[i].a[1] : i \in { j \in 1..Len(gcode.lines) : gcode.lines[j].k = "M03 S" } }
BlockSpeeds(gcode) ==
    { << gcode.lines[i].a[2], gcode.lines[i].a[3] >> :
        i \in { j \in 1..Len(gcode.lines) : gcode.lines[j].k = "; -- Face Milling" } }
    \cup
    { << gcode.lines[i].a[3], gcode.lines[i].a[4] >> :
        i \in { j \in 1..Len(gcode.lines) : gcode.lines[j].k = "; -- Drilling" } }
NoStepSpeeds(plan) ==
    \A i \in 1..Len(plan) : IsNone(Get(plan[i].rpm)) /\ IsNone(Get(plan[i].feed_rate_mm_per_min))

C8_NoDrillToolsIsFatal ==
    (/\ Returned
     /\ WellFormedSpec(spec)
     /\ Len(HolesOf(spec)) >= 1
     /\ \A i \in 1..Len(db.tools) : db.tools[i].type # "drill") =>
        /\ ~result.val.valid
        /\ IsNone(result.val.gcode)
        /\ \E i \in 1..Len(result.val.errors) :
            result.val.errors[i].msg = "G-code generation error: No drill tools available in DB"

\* C9: resolveDrillTool(d) returns the key drill_<trunc(d)>mm when that key
\* is in the tool table; otherwise, among the records of type "drill" with a
\* numeric diameter, the one minimising |recordDiameter - d|, the first such
\* record in table order winning ties (table {drill_3mm, drill_10mm}, d = 7
\* gives drill_10mm).
C9_ResolveDrillTool ==
    (call.fn = "_pick_tool_for_drilling") =>
        LET tools == db.tools
            d == call.d
            truncated == IF d >= 0 THEN d \div 10 ELSE -((-d) \div 10)
            exact == "drill_" \o ToString(truncated) \o "mm"
            drills == { i \in 1..Len(tools) :
                          tools[i].type = "drill" /\ tools[i].diameter_mm.t = "num" }
            dist(i) == IF tools[i].diameter_mm.n >= d THEN tools[i].diameter_mm.n - d
                       ELSE d - tools[i].diameter_mm.n
        IN  /\ (\E i \in 1..Len(tools) : tools[i].key = exact) => call.ret = Ok(exact)
            /\ ((\A i \in 1..Len(tools) : tools[i].key # exact) /\ drills # {}) =>
                /\ call.ret.ok
                /\ \E i \in drills :
                    /\ tools[i].key = call.ret.val
                    /\ \A j \in drills : dist(i) < dist(j) \/ (dist(i) = dist(j) /\ i <= j)
            /\ (tools = ToolsTwoDrills /\ d = 70) => call.ret = Ok("drill_10mm")

\* a tie between two drills, decided for the first in table order
C9_Witness ==
    /\ call.fn = "_pick_tool_for_drilling"
    /\ db.tools = ToolsTwoDrills
    /\ call.d = 65
    /\ call.ret = Ok("drill_3mm")

\* the primary strategy fails on this reply: the collaborator fails, its text
\* does not parse, or no parsed item survives repair and step construction
PrimaryFails(kb, s, reply) ==
    \/ reply.kind \in {"error", "text"}
    \/ /\ reply.kind = "json"
       /\ \A i \in 1..Len(reply.data) : ~SurvivingStep(kb, reply.data[i], PlannerMaterial(s)).ok

PrimaryFailureMessages ==
    { "collaborator error", "Invalid JSON response from LLM",
      "No valid plan steps generated from LLM" }

\* C10: every failure of the primary (LLM) strategy is recovered inside
\* plan_process by returning the rule-based plan; no collaborator or parse
\* error reaches the caller of plan_process or the errors of run.
C10_PrimaryFailureFallsBack ==
    /\ (call.fn = "plan_process" /\ llm /\ PrimaryFails(db, call.spec, call.reply)) =>
            call.ret = RuleBasedPlanProcess(db, call.spec)
    /\ (call.fn = "plan_process" /\ ~call.ret.ok) =>
            /\ call.ret.exc # "LangChainException"
            /\ call.ret.msg \notin PrimaryFailureMessages
    /\ Returned =>
            \A i \in 1..Len(result.val.errors) :
                result.val.errors[i].msg \notin
                    { "Planning error: " \o m : m \in PrimaryFailureMessages }

\* a reply whose only item is dropped, answered with the rule-based plan
C10_Witness ==
    /\ call.fn = "plan_process"
    /\ llm
    /\ call.reply = LLMJson(<< Step(Str("tapping"), Num(100), Num(60), Origin, Absent, Absent, Absent) >>)
    /\ Len(HolesOf(call.spec)) = 1
    /\ call.ret.ok
    /\ Len(call.ret.val) = 2

\* an error of the given check is in the returned list
HasError(errors, step, msg) == \E i \in 1..Len(errors) : errors[i] = Err(step, msg)
HasStepError(errors, step) == \E i \in 1..Len(errors) : errors[i].step = step

\* C11: validate collects all violations in one call: every violated check
\* (empty plan, empty program, missing header marker, missing terminator
\* marker, each per-step rule of each step) contributes an error to the
\* returned list, so no violation hides another.
C11_AllViolationsCollected ==
    (call.fn = "validate" /\ call.ret.ok) =>
        LET errors == call.ret.val.errors
            plan == call.plan
        IN  /\ Len(plan) = 0 => HasError(errors, 0, "Plan is empty")
            /\ (~IsNone(call.gcode) /\ Len(call.gcode.lines) = 0) =>
                    HasError(errors, 0, "G-code is empty")
            /\ (~IsNone(call.gcode) /\ Len(call.gcode.lines) > 0) =>
                /\ LacksLine(call.gcode, HeaderLine) =>
                        HasError(errors, 0, "G-code missing header (PSEUDO-GCODE marker)")
                /\ LacksLine(call.gcode, EndLine) =>
                        HasError(errors, 0, "G-code missing terminator (M30)")
            /\ \A i \in 1..Len(plan) :
                /\ plan[i].operation \notin {Str("face_milling"), Str("drilling")} =>
                        HasError(errors, i, "Unsupported operation")
                /\ (plan[i].depth_mm.t = "num" /\ plan[i].depth_mm.n <= 0) =>
                        HasError(errors, i, "depth_mm must be > 0")
                /\ (plan[i].operation = Str("drilling") /\ plan[i].diameter_mm.t = "num"
                      /\ plan[i].diameter_mm.n <= 0) =>
                        HasError(errors, i, "drilling requires diameter_mm > 0")

\* what does hold: the plan check, the first violated program check and
\* every per-step rule are reported together
C11_FirstProgramViolationAndSteps ==
    (call.fn = "validate" /\ call.ret.ok) =>
        LET errors == call.ret.val.errors
            plan == call.plan
        IN  /\ Len(plan) = 0 => HasError(errors, 0, "Plan is empty")
            /\ (~IsNone(call.gcode) /\ Len(call.gcode.lines) = 0) =>
                    HasError(errors, 0, "G-code is empty")
            /\ (~IsNone(call.gcode) /\ Len(call.gcode.lines) > 0) =>
                /\ LacksLine(call.gcode, HeaderLine) =>
                        HasError(errors, 0, "G-code missing header (PSEUDO-GCODE marker)")
                /\ (~LacksLine(call.gcode, HeaderLine) /\ LacksLine(call.gcode, EndLine)) =>
                        HasError(errors, 0, "G-code missing terminator (M30)")
            /\ \A i \in 1..Len(plan) :
                /\ plan[i].operation \notin {Str("face_milling"), Str("drilling")} =>
                        HasError(errors, i, "Unsupported operation")
                /\ (plan[i].operation = Str("drilling") /\ plan[i].diameter_mm.t = "num"
                      /\ plan[i].diameter_mm.n <= 0) =>
                        HasError(errors, i, "drilling requires diameter_mm > 0")

\* a DRILLING step whose diameter_mm is absent, null or not > 0
BadDiameterStep(step) ==
    /\ step.operation = Str("drilling")
    /\ step.diameter_mm.t \in {"absent", "none"}
         \/ (step.diameter_mm.t = "num" /\ step.diameter_mm.n <= 0)

\* C12: for any plan, every DRILLING step whose diameter_mm is absent or not
\* > 0 makes structural validation return valid = false with an error that
\* names that step's index and the diameter constraint, regardless of what
\* the other steps contain.
C12_BadDiameterReported ==
    (call.fn = "validate" /\ IsNone(call.gcode)) =>
        \A i \in 1..Len(call.plan) :
            BadDiameterStep(call.plan[i]) =>
                /\ call.ret.ok
                /\ ~call.ret.val.valid
                /\ HasError(call.ret.val.errors, i, "drilling requires diameter_mm > 0")

\* what does hold: whenever validate returns, the diameter error is there
C12_BadDiameterReportedOnReturn ==
    (call.fn = "validate" /\ call.ret.ok) =>
        \A i \in 1..Len(call.plan) :
            BadDiameterStep(call.plan[i]) =>
                /\ ~call.ret.val.valid
                /\ HasError(call.ret.val.errors, i, "drilling requires diameter_mm > 0")

\* C13: in every run the phases execute in the order PLAN, VALIDATE_PRE,
\* GENERATE, VALIDATE_POST, each at most once and never re-entered; the first
\* failing phase ends the run and no later phase executes: the Program
\* Generator is never invoked when planning or pre-validation fails, and the
\* post-validation is never invoked when generation fails.
C13_Edge ==
    /\ pc = "plan" => pc' \in {"validate_pre", "done"}
    /\ pc = "validate_pre" => pc' \in {"generate", "done"}
    /\ pc = "generate" => pc' \in {"validate_post", "done"}
    /\ pc = "validate_post" => pc' = "done"
    /\ pc' = "plan" => pc = "idle"
    /\ pc' = "validate_pre" => pc = "plan"
    /\ pc' = "generate" => pc = "validate_pre"
    /\ pc' = "validate_post" => pc = "generate"
    /\ (pc = "plan" /\ ~llm /\ ~RuleBasedPlanProcess(db, spec).ok) => pc' = "done"
    /\ (pc = "plan" /\ pc' = "validate_pre") =>
            \E reply \in Replies : PlanProcess(db, llm, spec, reply) = Ok(state'.plan)
    /\ (pc = "validate_pre"
          /\ Validate(state.plan, None) # Ok([valid |-> TRUE, errors |-> << >>])) => pc' = "done"
    /\ (pc = "generate" /\ ~GeneratePseudoGcode(db, state.plan, RunMaterial(spec)).ok) =>
            pc' = "done"
    /\ pc \in {"plan", "validate_pre"} => state'.gcode = None
    /\ (pc' = "done" /\ pc # "validate_post") => IsNone(result'.val.gcode)
C13_PhasesInOrder == [][C13_Edge]_vars

\* a run that pre-validation ended: the plan is there, no program was made
C13_Witness ==
    /\ pc = "done"
    /\ Len(state.plan) >= 1
    /\ ~Validate(state.plan, None).val.valid
    /\ state.gcode = None
    /\ ~result.val.valid
    /\ IsNone(result.val.gcode)

\* the terminal result of a phase whose component raised
Terminal(plan, gcode, phase, cause) ==
    [ok |-> TRUE,
     val |-> [plan |-> plan, gcode |-> gcode, valid |-> FALSE,
              errors |-> << [step |-> 0, msg |-> phase \o cause] >>]]

\* C14: when a component raises during phase P of run, the result is terminal
\* with valid = false, an errors list of exactly one string naming phase P
\* and the cause, and the partial state reached so far: the plan is the
\* computed plan if planning completed (empty otherwise) and gcode is the
\* program if generation completed (null otherwise).
C14_Step ==
    /\ (pc = "plan" /\ ~llm /\ ~RuleBasedPlanProcess(db, spec).ok) =>
            /\ pc' = "done"
            /\ result' = Terminal(<< >>, None, "Planning error: ",
                                  RuleBasedPlanProcess(db, spec).msg)
    /\ (pc = "plan" /\ pc' = "done") =>
            /\ ~RuleBasedPlanProcess(db, spec).ok
            /\ result' = Terminal(<< >>, None, "Planning error: ",
                                  RuleBasedPlanProcess(db, spec).msg)
    /\ (pc = "validate_pre" /\ ~Validate(state.plan, None).ok) =>
            /\ pc' = "done"
            /\ result' = Terminal(state.plan, None, "Validation error: ",
                                  Validate(state.plan, None).msg)
    /\ (pc = "generate" /\ ~GeneratePseudoGcode(db, state.plan, RunMaterial(spec)).ok) =>
            /\ pc' = "done"
            /\ result' = Terminal(state.plan, None, "G-code generation error: ",
                                  GeneratePseudoGcode(db, state.plan, RunMaterial(spec)).msg)
    /\ (pc = "validate_post" /\ ~Validate(state.plan, state.gcode).ok) =>
            /\ pc' = "done"
            /\ result' = Terminal(state.plan, state.gcode, "G-code validation error: ",
                                  Validate(state.plan, state.gcode).msg)
C14_RaiseIsTerminal == [][C14_Step]_vars

\* a run whose Program Generator raised: the plan is kept, there is no program
C14_Witness ==
    /\ pc = "done"
    /\ Len(state.plan) >= 1
    /\ ~GeneratePseudoGcode(db, state.plan, RunMaterial(spec)).ok
    /\ result = Terminal(state.plan, None, "G-code generation error: ",
                         "No drill tools available in DB")

\* a run whose planner raised: no plan, no program
C14_PlanningRaised ==
    /\ pc = "done"
    /\ ~RuleBasedPlanProcess(db, spec).ok
    /\ result.val.plan = << >>
    /\ Len(result.val.errors) = 1

\* C15: run returns valid = true only if both the pre-generation and the
\* post-generation validation reported isValid = true; in every returned
\* result valid = true holds exactly when errors is empty, and valid = true
\* implies gcode is a program containing the header and terminator markers.
C15_ValidIffNoErrors ==
    Returned =>
        LET r == result.val
        IN  /\ r.valid <=> (Len(r.errors) = 0)
            /\ r.valid =>
                /\ Validate(r.plan, None) = Ok([valid |-> TRUE, errors |-> << >>])
                /\ ~IsNone(r.gcode)
                /\ Validate(r.plan, r.gcode) = Ok([valid |-> TRUE, errors |-> << >>])
                /\ \E i \in 1..Len(r.gcode.lines) : r.gcode.lines[i].k = "; PSEUDO-GCODE GENERATED"
                /\ \E i \in 1..Len(r.gcode.lines) : r.gcode.lines[i].k = "M30"

\* a successful run over two holes, and a failed one
C15_Witness ==
    /\ Returned
    /\ result.val.valid
    /\ Len(result.val.plan) = 3
    /\ result.val.errors = << >>
C15_WitnessFailed ==
    /\ Returned
    /\ ~result.val.valid
    /\ Len(result.val.errors) >= 1

\* C16: every result returned by run, including a failed run whose gcode is
\* null, is a well-formed PlanResult as exposed to callers (plan an array of
\* step objects, gcode a string or null, valid a boolean, errors an array of
\* strings), so building the exposed PlanResult from it succeeds.
C16_ResultIsPlanResult ==
    pc = "exposed" => result.ok

\* what does hold: only a null gcode makes the construction fail
C16_FailsOnlyOnNullGcode ==
    /\ Returned => (PlanResultCtor(result.val).ok <=> ~IsNone(result.val.gcode))
    /\ Returned => \A i \in 1..Len(result.val.plan) : PlanStepFieldsOk(result.val.plan[i])

\* C17: plan_process returns, for every part spec and whichever strategy (LLM
\* or rule-based) produced the plan, a non-empty sequence of typed plan steps
\* whose first step is FACE_MILLING.
C17_FirstStepFaceMilling ==
    (call.fn = "plan_process" /\ WellFormedSpec(call.spec)) =>
        /\ call.ret.ok
        /\ Len(call.ret.val) >= 1
        /\ \A i \in 1..Len(call.ret.val) : PlanStepFieldsOk(call.ret.val[i])
        /\ call.ret.val[1].operation = Str("face_milling")

\* what does hold: the plan is non-empty and typed, and the rule-based one
\* starts with FACE_MILLING
C17_NonEmptyTyped ==
    (call.fn = "plan_process" /\ WellFormedSpec(call.spec)) =>
        /\ call.ret.ok
        /\ Len(call.ret.val) >= 1
        /\ \A i \in 1..Len(call.ret.val) : PlanStepFieldsOk(call.ret.val[i])
        /\ (~llm \/ PrimaryFails(db, call.spec, call.reply)) =>
                call.ret.val[1].operation = Str("face_milling")

\* C18: program generation is a pure function of (plan, material, Knowledge
\* Base): two calls of generate_pseudo_gcode with identical inputs return
\* identical program text, independent of any earlier calls on the same
\* generator instance; no call changes the Knowledge Base.
C18_Step ==
    /\ db' = db
    /\ (/\ call.fn = "generate_pseudo_gcode"
        /\ call'.fn = "generate_pseudo_gcode"
        /\ call'.plan = call.plan
        /\ call'.material = call.material) => call'.ret = call.ret
C18_GenerationIsPure == [][C18_Step]_vars

\* a second call has returned a program for a two-step plan
C18_Witness ==
    /\ call.fn = "generate_pseudo_gcode"
    /\ call.nth = 2
    /\ Len(call.plan) = 2
    /\ call.ret.ok
    /\ Len(call.ret.val.lines) > 6

\* a position of exactly two numeric coordinates
TwoNumbers(pos) ==
    /\ pos.t = "list"
    /\ Len(pos.l) = 2
    /\ \A i \in 1..2 : pos.l[i].t = "num"

\* C19: structural validation rejects every DRILLING step whose position is
\* not exactly two numeric coordinates (missing, not a list, of length other
\* than 2, or holding a non-numeric element): an error for that step and
\* valid = false.
C19_PositionTwoNumbers ==
    (call.fn = "validate" /\ call.ret.ok) =>
        \A i \in 1..Len(call.plan) :
            (call.plan[i].operation = Str("drilling") /\ ~TwoNumbers(call.plan[i].position)) =>
                /\ ~call.ret.val.valid
                /\ HasError(call.ret.val.errors, i, "drilling requires position [x, y]")

\* what does hold: a position that is no list of length 2 is rejected
C19_PositionShape ==
    (call.fn = "validate" /\ call.ret.ok) =>
        \A i \in 1..Len(call.plan) :
            (/\ call.plan[i].operation = Str("drilling")
             /\ ~(call.plan[i].position.t = "list" /\ Len(call.plan[i].position.l) = 2)) =>
                /\ ~call.ret.val.valid
                /\ HasError(call.ret.val.errors, i, "drilling requires position [x, y]")

\* the first line of each step's block
IsBlockHead(line) ==
    line.k \in {"; -- Face Milling", "; -- Drilling", "; Unsupported operation:"}
ExpectedHead(step) ==
    IF step.operation = Str("face_milling") THEN "; -- Face Milling"
    ELSE IF step.operation = Str("drilling") THEN "; -- Drilling"
    ELSE "; Unsupported operation:"
CountOf(lines, k) == Cardinality({ i \in 1..Len(lines) : lines[i].k = k })

\* the material's recommended rpm, or 1000 where the table gives none
MaterialDefaultRpm(kb, material) ==
    IF material \in DOMAIN kb.materials /\ kb.materials[material].recommended_rpm.t = "num"
    THEN kb.materials[material].recommended_rpm.n
    ELSE 1000

WellStructured(kb, lines, plan, material) ==
    LET n == Len(lines)
        heads == SelectSeq(lines, IsBlockHead)
    IN  /\ n >= 6
        /\ lines[1] = [k |-> "; PSEUDO-GCODE GENERATED", a |-> << >>]
        /\ lines[2] = [k |-> "; MATERIAL:", a |-> << material >>]
        /\ lines[3] = [k |-> "G90 G21", a |-> << >>]
        /\ lines[4].k = "M03 S"
        /\ lines[4].a = << IF Len(plan) > 0 /\ plan[1].rpm.t = "num"
                           THEN plan[1].rpm.n ELSE MaterialDefaultRpm(kb, material) >>
        /\ lines[n - 1] = [k |-> "M05", a |-> << >>]
        /\ lines[n] = [k |-> "M30", a |-> << >>]
        /\ CountOf(lines, "M03 S") = 1
        /\ CountOf(lines, "M05") = 1
        /\ \A i \in 1..n : IsBlockHead(lines[i]) => (i > 4 /\ i < n - 1)
        /\ Len(heads) = Len(plan)
        /\ \A i \in 1..Len(plan) : heads[i].k = ExpectedHead(plan[i])

\* C20: for every plan (including the empty plan) the generated program
\* consists, in order, of the header comment as first line, the material
\* comment, the absolute/metric mode directive, one spindle-start directive
\* whose speed is the first step's rpm if present else the material default,
\* then one block per plan step in plan order, then the spindle-stop and the
\* program-end directive as last line; it holds exactly one spindle-start and
\* exactly one spindle-stop directive.
C20_ProgramStructure ==
    /\ (call.fn = "generate_pseudo_gcode" /\ call.ret.ok) =>
            WellStructured(db, call.ret.val.lines, call.plan, call.material)
    /\ (pc \in {"validate_post", "done"} /\ ~IsNone(state.gcode)) =>
            WellStructured(db, state.gcode.lines, state.plan, RunMaterial(spec))

\* a drilling step carrying its own rpm, then a face milling step
C20_Witness ==
    /\ call.fn = "generate_pseudo_gcode"
    /\ Len(call.plan) = 2
    /\ call.plan[1].operation = Str("drilling")
    /\ call.plan[1].rpm = Num(9000)
    /\ call.plan[2].operation = Str("face_milling")
    /\ call.ret.ok
    /\ call.ret.val.lines[4] = [k |-> "M03 S", a |-> << 9000 >>]
    /\ Len(call.ret.val.lines) = 18

\* the empty plan gives the six framing lines
C20_WitnessEmptyPlan ==
    /\ call.fn = "generate_pseudo_gcode"
    /\ call.plan = << >>
    /\ call.ret.ok
    /\ Len(call.ret.val.lines) = 6

\* the parsed items of a reply that pass repair and step construction
Survivors(kb, data, material) ==
    { i \in 1..Len(data) : SurvivingStep(kb, data[i], material).ok }
\* an item the claim says is dropped: no known operation, or a DRILLING item
\* lacking diameter_mm, depth_mm or position
MustBeDropped(item) ==
    \/ "operation" \notin DOMAIN item
    \/ item.operation \notin {Str("face_milling"), Str("drilling")}
    \/ /\ item.operation = Str("drilling")
       /\ \/ item.diameter_mm.t \in {"absent", "none"}
          \/ item.depth_mm.t \in {"absent", "none"}
          \/ item.position.t \in {"absent", "none"}

\* C21: in the primary (LLM) strategy the returned plan is exactly the
\* subsequence, in original relative order, of the parsed steps that pass
\* repair and step construction; a step with an unknown or missing operation,
\* or a DRILLING step lacking diameter_mm, depth_mm or position, is dropped
\* without aborting the other steps; if no step survives, the rule-based plan
\* is returned instead.
C21_SurvivorsInOrder ==
    (call.fn = "plan_process" /\ llm /\ call.reply.kind = "json") =>
        LET data == call.reply.data
            material == IF call.spec.material.t = "absent" THEN "aluminum_6061"
                        ELSE call.spec.material.s
            S == Survivors(db, data, material)
            Rank(i) == Cardinality({ j \in S : j <= i })
        IN  /\ \A i \in 1..Len(data) : MustBeDropped(data[i]) => i \notin S
            /\ S # {} =>
                /\ call.ret.ok
                /\ Len(call.ret.val) = Cardinality(S)
                /\ \A i \in S : call.ret.val[Rank(i)] = SurvivingStep(db, data[i], material).val
            /\ S = {} => call.ret = RuleBasedPlanProcess(db, call.spec)

\* a dropped first item does not abort the second
C21_Witness ==
    /\ call.fn = "plan_process"
    /\ llm
    /\ call.reply.kind = "json"
    /\ Len(call.reply.data) = 2
    /\ call.reply.data[1].operation = Str("tapping")
    /\ call.reply.data[2].operation = Str("drilling")
    /\ call.ret.ok
    /\ Len(call.ret.val) = 1
    /\ call.ret.val[1].operation = Str("drilling")

\* C22: in the rule-based strategy a hole with a non-positive diameter gets
\* diameter 3 mm and a hole with a non-positive depth gets depth 5 mm in its
\* DRILLING step, and planning completes with all N+1 steps.
C22_NonPositiveClamped ==
    (call.fn = "_rule_based_plan_process") =>
        LET holes == call.spec.drill_holes.l
        IN  /\ call.ret.ok
            /\ Len(call.ret.val) = Len(holes) + 1
            /\ \A i \in 1..Len(holes) :
                /\ call.ret.val[i + 1].operation = Str("drilling")
                /\ holes[i].diameter_mm.n <= 0 => call.ret.val[i + 1].diameter_mm = Num(30)
                /\ holes[i].depth_mm.n <= 0 => call.ret.val[i + 1].depth_mm = Num(50)

\* a hole of depth 0 and one of diameter -1 mm, both planned
C22_Witness ==
    /\ call.fn = "_rule_based_plan_process"
    /\ Len(call.spec.drill_holes.l) = 2
    /\ call.spec.drill_holes.l[1] = Hole(Num(60), Num(0), Origin)
    /\ call.spec.drill_holes.l[2] = Hole(Num(-10), Num(100), Origin)
    /\ call.ret.ok
    /\ call.ret.val[2].depth_mm = Num(50)
    /\ call.ret.val[3].diameter_mm = Num(30)

\* C23: within one plan_process call the collaborator is invoked at most
\* once (no retry), the rule-based strategy runs at most once, and it runs
\* only when the primary strategy was not attempted or failed; a successful
\* primary attempt returns its plan without running the rule-based strategy:
\* ATTEMPT_PRIMARY -> (SUCCESS | FALLBACK) -> RULE_BASED -> SUCCESS | FAIL.
C23_Step ==
    (call'.fn = "plan_process") =>
        /\ call'.invoked <= 1
        /\ call'.ruleRuns <= 1
        /\ call.fn = "plan_process" =>
            /\ << call.at, call'.at >> \in
                    { << "attempt_primary", "returned" >>, << "attempt_primary", "rule_based" >>,
                      << "rule_based", "returned" >> }
            /\ call'.ruleRuns > call.ruleRuns =>
                    \/ ~llm /\ call.invoked = 0
                    \/ call.invoked = 1 /\ ~LLMPlanProcess(db, call.spec, call.reply).ok
            /\ (call.at = "attempt_primary" /\ call'.at = "returned") =>
                    /\ call'.ret = LLMPlanProcess(db, call.spec, call.reply)
                    /\ call'.ret.ok
                    /\ call'.ruleRuns = 0
        /\ call'.at = "returned" => call'.ret = PlanProcess(db, llm, call'.spec, call'.reply)
C23_OneAttemptOneFallback == [][C23_Step]_vars

\* a call that went through FALLBACK: one invocation, one rule-based run
C23_Witness ==
    /\ call.fn = "plan_process"
    /\ call.at = "returned"
    /\ call.invoked = 1
    /\ call.ruleRuns = 1
    /\ call.ret.ok

\* a call whose primary attempt succeeded
C23_WitnessPrimary ==
    /\ call.fn = "plan_process"
    /\ call.at = "returned"
    /\ call.invoked = 1
    /\ call.ruleRuns = 0

\* C24: no pipeline operation mutates the Knowledge Base or the input
\* PartSpec: through any sequence of plan_process, validate,
\* generate_pseudo_gcode and run calls, on either planning strategy,
\* succeeding or failing, the materials, tools and operations tables and the
\* caller's spec stay as they were.
C24_Step ==
    /\ db'.materials = db.materials
    /\ db'.tools = db.tools
    /\ db'.operations = db.operations
    /\ (pc # "idle" /\ pc' # "idle") => spec' = spec
C24_NothingMutated == [][C24_Step]_vars

\* a run on the LLM strategy has ended for a spec that came without holes
C24_Witness ==
    /\ pc = "done"
    /\ llm
    /\ spec.drill_holes = Absent
    /\ result.ok
    /\ result.val.valid

\* C25: the three drill-tool resolutions agree: for every tool table that has
\* a drill-type record with a numeric diameter and every diameter d, the key
\* chosen inline by the rule-based planner and by the LLM step repair equals
\* the key _pick_tool_for_drilling(d) returns; they differ only when the
\* table has no such record (planner substitutes "drill_3mm", resolver fails).
C25_ResolutionsAgree ==
    (call.fn = "_pick_tool_for_drilling") =>
        LET planner == RuleBasedToolKey(db.tools, call.d)
            repair == FixStepToolKey(db.tools, Num(call.d))
        IN  /\ repair = Ok(planner)
            /\ HasDrillCandidate(db.tools) => call.ret = Ok(planner)
            /\ call.ret # Ok(planner) =>
                /\ ~HasDrillCandidate(db.tools)
                /\ planner = "drill_3mm"
                /\ ~call.ret.ok

\* no exact key for 12 mm: all three choose the nearest drill
C25_Witness ==
    /\ call.fn = "_pick_tool_for_drilling"
    /\ db.tools = ToolsReversed
    /\ call.d = 120
    /\ call.ret = Ok("drill_10mm")
    /\ RuleBasedToolKey(db.tools, call.d) = "drill_10mm"

\* the planner substitutes where the resolver fails
C25_WitnessNoDrill ==
    /\ call.fn = "_pick_tool_for_drilling"
    /\ db.tools = ToolsNoDrill
    /\ ~call.ret.ok
    /\ RuleBasedToolKey(db.tools, call.d) = "drill_3mm"

\* C26: every plan the rule-based strategy returns for a well-formed PartSpec
\* (any material) passes structural validation, so on the rule-based path run
\* never ends in a VALIDATE_PRE failure and returns valid = true whenever
\* generation completes.
C26_RuleBasedPlanIsValid ==
    /\ (call.fn = "_rule_based_plan_process" /\ WellFormedSpec(call.spec)) =>
            /\ call.ret.ok
            /\ Validate(call.ret.val, None) = Ok([valid |-> TRUE, errors |-> << >>])
    /\ (Returned /\ ~llm /\ WellFormedSpec(spec)) =>
            /\ Len(result.val.plan) >= 1
            /\ Validate(result.val.plan, None) = Ok([valid |-> TRUE, errors |-> << >>])
            /\ ~IsNone(result.val.gcode) => result.val.valid

\* a rule-based run for an unknown material and two holes ends valid
C26_Witness ==
    /\ Returned
    /\ ~llm
    /\ spec.material = Str("titanium")
    /\ Len(HolesOf(spec)) = 2
    /\ WellFormedSpec(spec)
    /\ result.val.valid
    /\ ~IsNone(result.val.gcode)

\* C27 (as claimed): every plan the primary (LLM) strategy returns passes
\* structural validation, for any collaborator response; a response can never
\* make run end with valid = false at VALIDATE_PRE.
C27_LLMPlanPassesValidation ==
    /\ (call.fn = "plan_process" /\ llm /\ ~PrimaryFails(db, call.spec, call.reply)) =>
            Validate(call.ret.val, None) = Ok([valid |-> TRUE, errors |-> << >>])
    /\ (Returned /\ llm /\ WellFormedSpec(spec) /\ Len(result.val.plan) >= 1) =>
            Validate(result.val.plan, None).val.valid

\* a tool that is a non-empty string of blanks
BlankTool(step) == step.tool.t = "str" /\ step.tool.s = " "

\* C27 (amended): every plan the primary (LLM) strategy returns passes every
\* structural check except, possibly, the tool check: validation never
\* raises on it, each error it reports is "Invalid tool identifier" for a
\* step whose tool is a blank string, and the plan is valid exactly when no
\* step has a blank tool.
C27_OnlyToolCheckCanFail ==
    (call.fn = "plan_process" /\ llm /\ ~PrimaryFails(db, call.spec, call.reply)) =>
        LET plan == call.ret.val
            v == Validate(plan, None)
        IN  /\ call.ret.ok
            /\ v.ok
            /\ \A k \in 1..Len(v.val.errors) :
                /\ v.val.errors[k].msg = "Invalid tool identifier"
                /\ v.val.errors[k].step \in 1..Len(plan)
                /\ BlankTool(plan[v.val.errors[k].step])
            /\ v.val.valid <=> (\A i \in 1..Len(plan) : ~BlankTool(plan[i]))

\* a reply whose face milling step names a blank tool survives and fails
C27_Witness ==
    /\ call.fn = "plan_process"
    /\ llm
    /\ call.reply.kind = "json"
    /\ Len(call.reply.data) = 2
    /\ call.ret.ok
    /\ Len(call.ret.val) = 2
    /\ BlankTool(call.ret.val[1])
    /\ call.ret.val[2].operation = Str("drilling")
    /\ Validate(call.ret.val, None).val.errors = << Err(1, "Invalid tool identifier") >>

\* C28: rule-based clamping changes only the non-positive field: a hole's
\* positive diameter and its positive depth are carried into the drilling
\* step unchanged, whatever the other field is.
C28_ClampOnlyNonPositive ==
    (call.fn = "_rule_based_plan_process" /\ call.ret.ok) =>
        \A i \in 1..Len(HolesOf(call.spec)) :
            LET h == HolesOf(call.spec)[i]
                step == call.ret.val[i + 1]
            IN  /\ (IsNum(h.diameter_mm) /\ h.diameter_mm.n > 0) =>
                        step.diameter_mm = h.diameter_mm
                /\ (IsNum(h.depth_mm) /\ h.depth_mm.n > 0) =>
                        step.depth_mm = h.depth_mm

\* the distance of a tool record's diameter from d
DistanceTo(meta, d) ==
    IF meta.diameter_mm.n >= d THEN meta.diameter_mm.n - d ELSE d - meta.diameter_mm.n

\* the record is drill-type with a numeric diameter, and no other such record
\* of the table is strictly closer to d
DrillTypeRecord(meta) == meta.type = "drill" /\ meta.diameter_mm.t = "num"
NearestDrill(tools, i, d) ==
    /\ DrillTypeRecord(tools[i])
    /\ \A j \in 1..Len(tools) :
            DrillTypeRecord(tools[j]) => DistanceTo(tools[i], d) <= DistanceTo(tools[j], d)

\* the table's position of the key the resolver returned
ReturnedIndex == CHOOSE i \in 1..Len(db.tools) : db.tools[i].key = call.ret.val

\* C29 (as claimed): the resolved tool is always a drill-type record whose
\* diameter is nearest to d among all drill-type records, also when the
\* exact-key path is taken for a non-integer d.
C29_AlwaysNearestDrill ==
    (call.fn = "_pick_tool_for_drilling" /\ call.ret.ok) =>
        /\ \E i \in 1..Len(db.tools) : db.tools[i].key = call.ret.val
        /\ NearestDrill(db.tools, ReturnedIndex, call.d)

\* C29 (amended): the resolved tool is the record under the key
\* drill_<trunc(d)>mm whenever the table has that key; otherwise it is a
\* drill-type record with a numeric diameter than which no other such record
\* is strictly closer to d.
C29_NearestUnlessExactKey ==
    (call.fn = "_pick_tool_for_drilling" /\ call.ret.ok) =>
        /\ \E i \in 1..Len(db.tools) : db.tools[i].key = call.ret.val
        /\ IF \E i \in 1..Len(db.tools) : db.tools[i].key = PreferredKey(call.d)
           THEN call.ret.val = PreferredKey(call.d)
           ELSE NearestDrill(db.tools, ReturnedIndex, call.d)

\* 6.9 mm with 6 mm and 7 mm drills: the exact key of the truncated diameter
C29_Witness ==
    /\ call.fn = "_pick_tool_for_drilling"
    /\ db.tools = ToolsAdjacent
    /\ call.d = 69
    /\ call.ret = Ok("drill_6mm")

\* no exact key: the nearest drill is returned
C29_WitnessScan ==
    /\ call.fn = "_pick_tool_for_drilling"
    /\ db.tools = ToolsStandard
    /\ call.d = 100
    /\ call.ret.ok
    /\ NearestDrill(db.tools, ReturnedIndex, call.d)

\* a present field of a step that is not a number
NonNumeric(v) == ~IsNum(v) /\ ~IsNone(v) /\ v # Absent

\* C30: validate is total on step-shaped input, including non-numeric field
\* values: for a plan whose steps carry a non-numeric depth, diameter, rpm or
\* feed it returns (isValid, errors) with the malformed step reported, and
\* never raises.
C30_ValidateTotal ==
    (call.fn = "validate") =>
        /\ call.ret.ok
        /\ \A i \in 1..Len(call.plan) :
                (\/ NonNumeric(call.plan[i].depth_mm)
                 \/ NonNumeric(call.plan[i].diameter_mm)
                 \/ NonNumeric(call.plan[i].rpm)
                 \/ NonNumeric(call.plan[i].feed_rate_mm_per_min)) =>
                    \E k \in 1..Len(call.ret.val.errors) : call.ret.val.errors[k].step = i
====
